---------------------------- MODULE Spec2Model ----------------------------
(***************************************************************************)
(* A model of the persistence and retrieval core of the index:             *)
(*   - the skip list (src/src/core/skip.rs): SkipListBuilder, Layer,       *)
(*     SkipList, at the level of the bytes they write and read;            *)
(*   - the segment serializer (src/src/core/codec.rs);                     *)
(*   - the searcher (src/src/core/searcher.rs);                            *)
(*   - the block-cached file handle (src/src/directory/fs_directory.rs).   *)
(* Each component has its own specification (SpecSkip, SpecCodec,          *)
(* SpecSearcher, SpecFS, SpecFSConc); the variables of the other           *)
(* components keep their initial values.                                   *)
(***************************************************************************)
EXTENDS Naturals, Integers, Sequences, FiniteSets, TLC

VARIABLES
    \* ---- skip list (skip.rs)
    phase,          \* "build" | "written" | "reading" | "panicked"
    unit,           \* TRUE: the payload type T is (), FALSE: T is u32
    builder,        \* SkipListBuilder: [period, data_layer, skip_layers]
    input,          \* history: the (doc_id, value) pairs inserted so far
    output,         \* the bytes SkipListBuilder::write put into the sink
    write_result,   \* [res, failed]: what write returned, which sink writes failed
    skip_list,      \* SkipList: [data_layer, skip_layers] of Layer cursors
    hist,           \* history of the reader calls (see HistInit)
    \* ---- segment serializer (codec.rs)
    ser,            \* SimpleSegmentSerializer (see SerializerNew)
    call,           \* history: the last serializer call (see CallInit)
    \* ---- searcher (searcher.rs)
    segments,       \* Vec<SegmentReader>: each reader is [segment |-> id it was opened from]
    segments_idx,   \* HashMap<SegmentId, usize>, a function on the ids it holds
    dir,            \* the segments directory.segments() lists, in order
    dir_pos,        \* how many of them for_directory has passed to add_segment
    first_idx,      \* history: per id, the number of readers held at its first successful add
    add_results,    \* history: what each add_segment call of for_directory returned
    search,         \* Searcher::search: [seg, doc], the place of its loops (see SearchIdle)
    events,         \* history: the calls search made on the collector, in order
    \* ---- block-cached file (fs_directory.rs)
    file,           \* FSFile.file: the bytes of the file, which never change
    file_len,       \* FSFile.len
    cache,          \* FSFile.cache: BTreeMap from block index to the block's bytes
    cache_lock,     \* the RwLock around the cache: 0 free, t held for writing by thread t
    th,             \* per thread: its read_bytes call (see ThreadIdle)
    loads,          \* history: per block index, how often read_bytes_real loaded it
    last            \* history: the last read_bytes call that returned (see LastInit)

skipVars == <<phase, unit, builder, input, output, write_result, skip_list, hist>>
codecVars == <<ser, call>>
searcherVars == <<segments, segments_idx, dir, dir_pos, first_idx, add_results,
                  search, events>>
fsVars == <<file, file_len, cache, cache_lock, th, loads, last>>

vars == <<skipVars, codecVars, searcherVars, fsVars>>

(***************************************************************************)
(* Bounds of the model.                                                    *)
(***************************************************************************)
MaxN == 5          \* inserts per skip list
MaxKey == 5        \* doc ids are drawn from 0..MaxKey
MaxPeriod == 3     \* periods are drawn from 2..MaxPeriod
MaxPostingWords == 3   \* u32 words a POSTINGS file grows to
MaxSegments == 3   \* segments a directory lists
MaxSegmentId == 2  \* segment ids are drawn from 0..MaxSegmentId
MaxBlocks == 2     \* whole blocks a file holds
MaxBuildN == 9     \* entries of the skip lists that are built and only written
MaxBuildPeriod == 10   \* their periods are 2..MaxBuildPeriod

\* A u32 is held as its 32-bit pattern read as a two's-complement integer
\* (the model checker's integers are 32 bits wide): 0 .. 2^31-1 stand for
\* themselves, 2^31 .. 2^32-1 are the negative numbers.  ULt is the unsigned
\* order.
\* u32::max_value() / DocId::max_value(), the end-of-stream sentinel
\* 0xFFFFFFFF.
DocIdMax == -1

ULt(a, b) ==
    \/ a >= 0 /\ b < 0
    \/ a >= 0 /\ b >= 0 /\ a < b
    \/ a < 0 /\ b < 0 /\ a < b

None == << >>
Some(x) == << x >>

Max(a, b) == IF a >= b THEN a ELSE b
Min(a, b) == IF a <= b THEN a ELSE b

\* s[from..to] of a slice or vector s (positions from 0, to exclusive).
Slice(s, from, to) == SubSeq(s, from + 1, to)

\* The value inserted with doc id d when the payload is a u32: distinct doc
\* ids carry distinct values, each with more than one non-zero byte.
PayloadOf(d) == 258 * (d + 1)

(***************************************************************************)
(* Big-endian u32 encoding, byteorder's write_u32::<BigEndian> and         *)
(* read_u32::<BigEndian> on a Cursor.                                      *)
(***************************************************************************)
U32BE(n) ==
    << (n \div 16777216) % 256, (n \div 65536) % 256, (n \div 256) % 256, n % 256 >>

\* read_u32 at cursor position pos (0-based): Err at end of data.
ReadU32(buf, pos) ==
    IF pos + 4 <= Len(buf)
    THEN [ok |-> TRUE,
          val |-> (IF buf[pos + 1] >= 128 THEN buf[pos + 1] - 256 ELSE buf[pos + 1])
                      * 16777216
                  + buf[pos + 2] * 65536 + buf[pos + 3] * 256 + buf[pos + 4],
          pos |-> pos + 4]
    ELSE [ok |-> FALSE, val |-> 0, pos |-> Len(buf)]

\* T::serialize: () writes nothing, u32 writes four big-endian bytes.
SerializeT(isUnit, v) == IF isUnit THEN << >> ELSE U32BE(v)

\* T::deserialize: () reads nothing and cannot fail.
DeserializeT(isUnit, buf, pos) ==
    IF isUnit THEN [ok |-> TRUE, val |-> 0, pos |-> pos] ELSE ReadU32(buf, pos)

RECURSIVE ConcatU32(_)
ConcatU32(s) == IF s = << >> THEN << >> ELSE U32BE(Head(s)) \o ConcatU32(Tail(s))

\* Vec<u32>::serialize: the length as u32, then the elements.
SerializeVecU32(v) == U32BE(Len(v)) \o ConcatU32(v)

RECURSIVE ReadU32s(_, _, _)
ReadU32s(buf, pos, n) ==
    IF n = 0 THEN [ok |-> TRUE, val |-> << >>, pos |-> pos]
    ELSE LET r == ReadU32(buf, pos) IN
         IF ~r.ok THEN [ok |-> FALSE, val |-> << >>, pos |-> r.pos]
         ELSE LET rest == ReadU32s(buf, r.pos, n - 1) IN
              [ok |-> rest.ok, val |-> <<r.val>> \o rest.val, pos |-> rest.pos]

\* Vec<u32>::deserialize.
DeserializeVecU32(buf, pos) ==
    LET l == ReadU32(buf, pos) IN
    IF ~l.ok THEN [ok |-> FALSE, val |-> << >>, pos |-> l.pos]
    ELSE ReadU32s(buf, l.pos, l.val)

(***************************************************************************)
(* LayerBuilder                                                            *)
(***************************************************************************)
LayerBuilderWithPeriod(period) ==
    [period |-> period, buffer |-> << >>, remaining |-> period, len |-> 0]

\* A variant that returns the offset behind the record instead of the
\* offset of the record.
LayerBuilderInsertAfter(lb, doc_id, valBytes) ==
    LET promote == (lb.remaining - 1 = 0)
        buffer == lb.buffer \o U32BE(doc_id) \o valBytes
    IN [layer |-> [period |-> lb.period,
                   buffer |-> buffer,
                   remaining |-> IF promote THEN lb.period ELSE lb.remaining - 1,
                   len |-> lb.len + 1],
        res |-> IF promote THEN Some(<<doc_id, Len(buffer)>>) ELSE None]

\* LayerBuilder::insert: the record goes to the buffer; every period-th
\* insert returns (doc_id, offset of the record in the buffer).
LayerBuilderInsert(lb, doc_id, valBytes) ==
    LET offset == Len(lb.buffer)
        promote == (lb.remaining - 1 = 0)
    IN [layer |-> [period |-> lb.period,
                   buffer |-> lb.buffer \o U32BE(doc_id) \o valBytes,
                   remaining |-> IF promote THEN lb.period ELSE lb.remaining - 1,
                   len |-> lb.len + 1],
        res |-> IF promote THEN Some(<<doc_id, offset>>) ELSE None]

(***************************************************************************)
(* SkipListBuilder                                                         *)
(***************************************************************************)
SkipListBuilderNew(period) ==
    [period |-> period,
     data_layer |-> LayerBuilderWithPeriod(period),
     skip_layers |-> << >>]

\* A variant that also creates the layer above the one asked for.
GetSkipLayerEager(b, layer_id) ==
    IF layer_id = Len(b.skip_layers) + 1
    THEN [b EXCEPT !.skip_layers = Append(Append(@, LayerBuilderWithPeriod(b.period)),
                                          LayerBuilderWithPeriod(b.period))]
    ELSE b

\* get_skip_layer: the layer layer_id (1-based here), created when it is the
\* first one past the existing layers.
GetSkipLayer(b, layer_id) ==
    IF layer_id = Len(b.skip_layers) + 1
    THEN [b EXCEPT !.skip_layers = Append(@, LayerBuilderWithPeriod(b.period))]
    ELSE b

\* The loop of SkipListBuilder::insert: carry the skip pointer upwards.
RECURSIVE Cascade(_, _, _)
Cascade(b, layer_id, skip_pointer) ==
    IF skip_pointer = None THEN b
    ELSE LET b1 == GetSkipLayer(b, layer_id)
             r == LayerBuilderInsert(b1.skip_layers[layer_id],
                                     skip_pointer[1][1], U32BE(skip_pointer[1][2]))
             b2 == [b1 EXCEPT !.skip_layers[layer_id] = r.layer]
         IN Cascade(b2, layer_id + 1, r.res)

\* The same loop with a budget of rounds: the number of rounds after which
\* it returns, or -1 if the budget runs out before it does.
RECURSIVE CascadeRounds(_, _, _, _)
CascadeRounds(b, layer_id, skip_pointer, budget) ==
    IF skip_pointer = None THEN layer_id - 1
    ELSE IF budget = 0 THEN -1
    ELSE LET b1 == GetSkipLayer(b, layer_id)
             r == LayerBuilderInsert(b1.skip_layers[layer_id],
                                     skip_pointer[1][1], U32BE(skip_pointer[1][2]))
             b2 == [b1 EXCEPT !.skip_layers[layer_id] = r.layer]
         IN CascadeRounds(b2, layer_id + 1, r.res, budget - 1)

\* The rounds of the loop of SkipListBuilder::insert(doc_id, v) on b.
InsertRounds(b, isUnit, doc_id, v, budget) ==
    LET r == LayerBuilderInsert(b.data_layer, doc_id, SerializeT(isUnit, v))
    IN CascadeRounds([b EXCEPT !.data_layer = r.layer], 1, r.res, budget)

SkipListBuilderInsert(b, isUnit, doc_id, v) ==
    LET r == LayerBuilderInsert(b.data_layer, doc_id, SerializeT(isUnit, v))
    IN Cascade([b EXCEPT !.data_layer = r.layer], 1, r.res)

\* The cumulative layer sizes of SkipListBuilder::write.
RECURSIVE CumulativeSizes(_, _)
CumulativeSizes(layers, size) ==
    IF layers = << >> THEN << >>
    ELSE LET s == size + Len(Head(layers).buffer)
         IN <<s>> \o CumulativeSizes(Tail(layers), s)

\* A variant that leaves the data layer out of the sizes.
LayerSizesSkipOnly(b) == CumulativeSizes(b.skip_layers, Len(b.data_layer.buffer))

LayerSizes(b) == CumulativeSizes(<<b.data_layer>> \o b.skip_layers, 0)

\* A variant that leaves out the topmost skip layer.
RECURSIVE ConcatBuffersButLast(_)
ConcatBuffersButLast(layers) ==
    IF Len(layers) <= 1 THEN << >>
    ELSE Head(layers).buffer \o ConcatBuffersButLast(Tail(layers))

RECURSIVE ConcatBuffers(_)
ConcatBuffers(layers) ==
    IF layers = << >> THEN << >>
    ELSE Head(layers).buffer \o ConcatBuffers(Tail(layers))

\* A variant that writes the skip layers before the data layer.
SkipListBuilderWriteSkipFirst(b, failed) ==
    [res |-> IF "data" \in failed \/ ("skip" \in failed /\ b.skip_layers # << >>)
             THEN "WriteError" ELSE "Ok",
     out |-> SerializeVecU32(LayerSizes(b)) \o ConcatBuffers(b.skip_layers)
                 \o b.data_layer.buffer]

\* SkipListBuilder::write on a sink whose writes in `failed` fail
\* ("header": layer_sizes.serialize, "data": data_layer.write, "skip": the
\* first skip layer's write).  A failed write puts nothing into the sink.
\* The result of layer_sizes.serialize is dropped; the others are returned
\* as WriteError.
SkipListBuilderWrite(b, failed) ==
    LET header == IF "header" \in failed THEN << >> ELSE SerializeVecU32(LayerSizes(b))
    IN IF "data" \in failed
       THEN [res |-> "WriteError", out |-> header]
       ELSE IF "skip" \in failed /\ b.skip_layers # << >>
            THEN [res |-> "WriteError", out |-> header \o b.data_layer.buffer]
            ELSE [res |-> "Ok",
                  out |-> header \o b.data_layer.buffer \o ConcatBuffers(b.skip_layers)]

(***************************************************************************)
(* Layer: a cursor over one layer's bytes and the lookahead next_id.       *)
(***************************************************************************)
\* Layer::read
LayerRead(buf) ==
    LET r == ReadU32(buf, 0)
    IN [buf |-> buf, pos |-> r.pos, next_id |-> IF r.ok THEN r.val ELSE DocIdMax]

\* Layer::empty
LayerEmpty == [buf |-> << >>, pos |-> 0, next_id |-> DocIdMax]

\* Layer::next.  panic: T::deserialize(..).unwrap() on an Err.
LayerNext(layer, isUnit) ==
    IF layer.next_id = DocIdMax
    THEN [layer |-> layer, res |-> None, panic |-> FALSE]
    ELSE LET d == DeserializeT(isUnit, layer.buf, layer.pos)
             n == ReadU32(layer.buf, d.pos)
         IN IF ~d.ok
            THEN [layer |-> layer, res |-> None, panic |-> TRUE]
            ELSE [layer |-> [buf |-> layer.buf, pos |-> n.pos,
                             next_id |-> IF n.ok THEN n.val ELSE DocIdMax],
                  res |-> Some(<<layer.next_id, d.val>>),
                  panic |-> FALSE]

\* Layer::seek_offset: Cursor::seek(SeekFrom::Start(offset)), then re-read
\* next_id.  A position past the end reads nothing.
LayerSeekOffset(layer, offset) ==
    LET r == ReadU32(layer.buf, offset)
    IN [buf |-> layer.buf,
        pos |-> IF r.ok THEN r.pos ELSE offset,
        next_id |-> IF r.ok THEN r.val ELSE DocIdMax]

\* Layer::seek: consume while next_id < doc_id, return the last entry consumed.
RECURSIVE LayerSeekLoop(_, _, _, _)
LayerSeekLoop(layer, isUnit, doc_id, val) ==
    IF ULt(layer.next_id, doc_id)
    THEN LET n == LayerNext(layer, isUnit)
         IN IF n.panic THEN [layer |-> n.layer, res |-> val, panic |-> TRUE]
            ELSE IF n.res = None THEN [layer |-> n.layer, res |-> val, panic |-> FALSE]
            ELSE LayerSeekLoop(n.layer, isUnit, doc_id, n.res)
    ELSE [layer |-> layer, res |-> val, panic |-> FALSE]

\* A variant that stops one key early: it consumes while next_id < doc_id - 1.
LayerSeekShort(layer, isUnit, doc_id) ==
    LayerSeekLoop(layer, isUnit, Max(doc_id - 1, 0), None)

\* A variant that consumes while next_id <= doc_id.
LayerSeekLe(layer, isUnit, doc_id) == LayerSeekLoop(layer, isUnit, doc_id + 1, None)

LayerSeek(layer, isUnit, doc_id) == LayerSeekLoop(layer, isUnit, doc_id, None)

(***************************************************************************)
(* SkipList: the reader.                                                   *)
(***************************************************************************)
Reverse(s) == [i \in 1..Len(s) |-> s[Len(s) + 1 - i]]

\* SkipList::read.  ok is FALSE where the code panics (the unwrap of the
\* header, a slice out of range).
SkipListRead(data) ==
    LET offs == DeserializeVecU32(data, 0)
        offsets == offs.val
        num_layers == Len(offsets)
        layers_data == Slice(data, offs.pos, Len(data))
        inRange == /\ offs.ok
                   /\ \A i \in 1..num_layers : offsets[i] <= Len(layers_data)
                   /\ \A i \in 1..(num_layers - 1) : offsets[i] <= offsets[i + 1]
    IN IF ~inRange
       THEN [ok |-> FALSE, data_layer |-> LayerEmpty, skip_layers |-> << >>]
       ELSE [ok |-> TRUE,
             data_layer |-> IF num_layers = 0 THEN LayerEmpty
                            ELSE LayerRead(Slice(layers_data, 0, offsets[1])),
             skip_layers |->
                 Reverse([i \in 1..(num_layers - 1) |->
                             LayerRead(Slice(layers_data, offsets[i], offsets[i + 1]))])]

\* The loop of SkipList::seek over the skip layers, topmost first.
RECURSIVE SeekSkipLayers(_, _, _, _)
SeekSkipLayers(layers, i, next_layer_skip, doc_id) ==
    IF i > Len(layers)
    THEN [layers |-> layers, skip |-> next_layer_skip, panic |-> FALSE]
    ELSE LET placed == IF next_layer_skip # None
                       THEN LayerSeekOffset(layers[i], next_layer_skip[1][2])
                       ELSE layers[i]
             r == LayerSeek(placed, FALSE, doc_id)
         IN IF r.panic
            THEN [layers |-> layers, skip |-> None, panic |-> TRUE]
            ELSE SeekSkipLayers([layers EXCEPT ![i] = r.layer], i + 1, r.res, doc_id)

\* A variant without the seek on the data layer: the cursor is only placed
\* where the skip layers point.
SkipListSeekNoData(sl, isUnit, doc_id) ==
    LET up == SeekSkipLayers(sl.skip_layers, 1, None, doc_id)
        placed == IF up.skip # None
                  THEN LayerSeekOffset(sl.data_layer, up.skip[1][2])
                  ELSE sl.data_layer
    IN [sl |-> [data_layer |-> placed, skip_layers |-> up.layers],
        res |-> None,
        panic |-> up.panic]

\* SkipList::seek
SkipListSeek(sl, isUnit, doc_id) ==
    LET up == SeekSkipLayers(sl.skip_layers, 1, None, doc_id)
        placed == IF up.skip # None
                  THEN LayerSeekOffset(sl.data_layer, up.skip[1][2])
                  ELSE sl.data_layer
        r == LayerSeek(placed, isUnit, doc_id)
    IN [sl |-> [data_layer |-> r.layer, skip_layers |-> up.layers],
        res |-> r.res,
        panic |-> up.panic \/ r.panic]

\* SkipList::next
SkipListNext(sl, isUnit) ==
    LET r == LayerNext(sl.data_layer, isUnit)
    IN [sl |-> [sl EXCEPT !.data_layer = r.layer], res |-> r.res, panic |-> r.panic]

(***************************************************************************)
(* Searcher (searcher.rs).  SegmentReader::open is outside the files       *)
(* modelled: it returns a reader of the segment or an error.               *)
(***************************************************************************)
SegmentIds == 0..MaxSegmentId

\* The directory's listing: any sequence of segments, of any ids.
RECURSIVE SeqsUpTo(_, _)
SeqsUpTo(S, n) ==
    IF n = 0 THEN {<< >>}
    ELSE LET shorter == SeqsUpTo(S, n - 1)
         IN shorter \cup {Append(q, x) : q \in shorter, x \in S}

\* HashMap::insert: the value of an existing key is replaced.
MapInsert(m, k, v) == [x \in (DOMAIN m) \cup {k} |-> IF x = k THEN v ELSE m[x]]

\* Searcher::new
SearcherNew == [segments |-> << >>, segments_idx |-> << >>]

\* A variant that maps the segment's id even when the open failed.
AddSegmentMapOnErr(sr, segment, opened) ==
    LET segment_ord == Len(sr.segments)
        idx == MapInsert(sr.segments_idx, segment, segment_ord)
    IN IF opened
       THEN [searcher |-> [segments |-> Append(sr.segments, [segment |-> segment]),
                           segments_idx |-> idx],
             res |-> "Ok"]
       ELSE [searcher |-> [segments |-> sr.segments, segments_idx |-> idx],
             res |-> "Err"]

\* A variant that takes segment_ord after the push.
AddSegmentOrdAfter(sr, segment, opened) ==
    IF opened
    THEN LET pushed == Append(sr.segments, [segment |-> segment])
         IN [searcher |-> [segments |-> pushed,
                           segments_idx |-> MapInsert(sr.segments_idx, segment,
                                                      Len(pushed))],
             res |-> "Ok"]
    ELSE [searcher |-> sr, res |-> "Err"]

\* Searcher::add_segment.  opened: SegmentReader::open returned Ok.
AddSegment(sr, segment, opened) ==
    IF opened
    THEN LET segment_ord == Len(sr.segments)
         IN [searcher |-> [segments |-> Append(sr.segments, [segment |-> segment]),
                           segments_idx |-> MapInsert(sr.segments_idx, segment,
                                                      segment_ord)],
             res |-> "Ok"]
    ELSE [searcher |-> sr, res |-> "Err"]

\* Searcher::get_doc: the reader the call delegates to (vector indices are
\* zero-based in the code, sequences one-based here).
GetDocReader(sr, segment_id) ==
    LET segment_ord == sr.segments_idx[segment_id]
    IN sr.segments[segment_ord + 1]

\* One round of the loop of Searcher::for_directory: add_segment on the next
\* segment of the listing, its result dropped.
add_segment(opened) ==
    /\ dir_pos < Len(dir)
    /\ LET segment == dir[dir_pos + 1]
           r == AddSegment([segments |-> segments, segments_idx |-> segments_idx],
                           segment, opened)
       IN /\ segments' = r.searcher.segments
          /\ segments_idx' = r.searcher.segments_idx
          /\ first_idx' = IF r.res = "Ok" /\ segment \notin DOMAIN first_idx
                          THEN MapInsert(first_idx, segment, Len(segments))
                          ELSE first_idx
          /\ add_results' = Append(add_results, r.res)
    /\ dir_pos' = dir_pos + 1
    /\ UNCHANGED <<dir, search, events, skipVars, codecVars, fsVars>>

\* What segment_reader.search(terms) yields for the reader of a segment:
\* id % 3 DocIds, different for each id.
Postings(segment) == [k \in 1..(segment % 3) |-> 10 * segment + k]

\* The place of search: seg = 0 before the call, seg = i in the round of the
\* i-th reader, seg past the last reader when it has returned; doc = 0
\* before set_segment, doc = k before the collect of the k-th DocId.
SearchIdle == [seg |-> 0, doc |-> 0]

\* A variant that walks the readers from the last to the first.
SegmentAtReversed(segs, i) == segs[Len(segs) + 1 - i]

\* for segment in &self.segments: the reader of the i-th round.
SegmentAt(segs, i) == segs[i]

\* The next call search makes on the collector, and the place after it.
SearchStep(segs, seg, doc) ==
    LET reader == SegmentAt(segs, seg)
        postings == Postings(reader.segment)
    IN IF doc = 0
       THEN [event |-> [op |-> "set_segment", reader |-> reader, doc_id |-> -1],
             seg |-> IF postings = << >> THEN seg + 1 ELSE seg,
             doc |-> IF postings = << >> THEN 0 ELSE 1]
       ELSE [event |-> [op |-> "collect", reader |-> reader, doc_id |-> postings[doc]],
             seg |-> IF doc = Len(postings) THEN seg + 1 ELSE seg,
             doc |-> IF doc = Len(postings) THEN 0 ELSE doc + 1]

\* search is called on the searcher for_directory returned.
search_begin ==
    /\ dir_pos = Len(dir)
    /\ search.seg = 0
    /\ search' = [seg |-> 1, doc |-> 0]
    /\ UNCHANGED <<segments, segments_idx, dir, dir_pos, first_idx, add_results, events,
                   skipVars, codecVars, fsVars>>

\* One call on the collector.
search_call ==
    /\ search.seg \in 1..Len(segments)
    /\ LET r == SearchStep(segments, search.seg, search.doc)
       IN /\ events' = Append(events, r.event)
          /\ search' = [seg |-> r.seg, doc |-> r.doc]
    /\ UNCHANGED <<segments, segments_idx, dir, dir_pos, first_idx, add_results,
                   skipVars, codecVars, fsVars>>

SearcherNext ==
    \/ \E opened \in BOOLEAN : add_segment(opened)
    \/ search_begin
    \/ search_call

(***************************************************************************)
(* FSFile (fs_directory.rs): a file read through a cache of blocks of CS   *)
(* bytes.  The byte at position p of the files considered is FileByte(p).   *)
(***************************************************************************)
CS == 4096
TooMuch == 2000000

FileByte(p) == (p + p \div CS) % 251

\* What reading the file from position `from` (after a seek to it) with
\* take(to - from).read_to_end gives: the bytes up to `to` or the end.
FileBytes(from, to, len) == SubSeq(file, from + 1, Min(to, len))

\* The file of len bytes.
FileOfLen(len) == SubSeq([k \in 1..len |-> FileByte(k - 1)], 1, len)

\* A variant without the seek: it reads from the start of the file.
ReadBytesRealNoSeek(from, to, len) ==
    [panic |-> to - from > TooMuch, buf |-> FileBytes(0, to - from, len)]

\* A variant without the take(len): it reads on to the end of the file.
ReadBytesRealNoTake(from, to, len) ==
    IF to < from \/ to - from > TooMuch
    THEN [panic |-> TRUE, buf |-> << >>]
    ELSE [panic |-> FALSE, buf |-> FileBytes(from, len, len)]

\* read_bytes_real; it panics on more than 2,000,000 bytes.  to < from
\* panics too: to - from is unsigned, the subtraction either panics on the
\* overflow or wraps to more than 2,000,000.
ReadBytesReal(from, to, len) ==
    IF to < from \/ to - from > TooMuch
    THEN [panic |-> TRUE, buf |-> << >>]
    ELSE [panic |-> FALSE, buf |-> FileBytes(from, to, len)]

\* One round of the loop of read_bytes, for block i, under the cache lock.
\* r is the call's state: cache, loaded (the blocks it loaded), out_buf,
\* written, panic.
ReadBlock(r, i, from, to, len) ==
    LET starti == from \div CS
        endi == to \div CS
        startofs == IF i = starti THEN from % CS ELSE 0
        endofs == IF i = endi THEN to % CS ELSE CS
        hit == i \in DOMAIN r.cache
        real == ReadBytesReal(i * CS, Min((i + 1) * CS, len), len)
        cache1 == IF hit THEN r.cache ELSE MapInsert(r.cache, i, real.buf)
        block == cache1[i]
        sliceOk == startofs <= endofs /\ endofs <= Len(block)
        chunk == Slice(block, startofs, endofs)
        write_len == Min(Len(chunk), to - from)
        copyOk == /\ r.written + write_len <= Len(r.out_buf)
                  /\ write_len = Len(chunk)
    IN IF ~hit /\ real.panic THEN [r EXCEPT !.panic = TRUE]
       ELSE IF ~sliceOk \/ ~copyOk
       THEN [r EXCEPT !.cache = cache1,
                      !.loaded = IF hit THEN @ ELSE Append(@, i),
                      !.panic = TRUE]
       ELSE [cache |-> cache1,
             loaded |-> IF hit THEN r.loaded ELSE Append(r.loaded, i),
             out_buf |-> SubSeq(r.out_buf, 1, r.written) \o chunk
                            \o SubSeq(r.out_buf, r.written + write_len + 1,
                                      Len(r.out_buf)),
             written |-> r.written + write_len,
             panic |-> FALSE]

RECURSIVE ReadBytesLoop(_, _, _, _, _)
ReadBytesLoop(r, i, from, to, len) ==
    IF i > to \div CS \/ r.panic THEN r
    ELSE LET r1 == ReadBlock(r, i, from, to, len)
         IN ReadBytesLoop(r1, i + 1, from, to, len)

\* read_bytes as a whole: the lock is held from before the loop to the
\* return.
ReadBytes(c, from, to, len) ==
    ReadBytesLoop([cache |-> c, loaded |-> << >>,
                   out_buf |-> [k \in 1..(to - from) |-> 0],
                   written |-> 0, panic |-> FALSE],
                  from \div CS, from, to, len)

\* Inputs: file lengths and positions on, next to and between the block
\* boundaries.
Marks == {k * CS + d : k \in 0..MaxBlocks, d \in {0, 1, CS - 1}}
FileLens == {l \in Marks : l <= MaxBlocks * CS}
Points(len) == {q \in Marks : q <= len} \cup {len}
\* The end of a range that reaches a byte past the end of the file: in the
\* last block that has bytes or, for a file that ends a byte before a block
\* boundary, in the block after it.
Beyond(len) == {len + 1}

Threads == {1, 2}

\* A thread's read_bytes call: pc is "idle" (no call), "waiting" (at
\* self.cache.write()), "inside" (holding the lock, before round i of the
\* loop) or "panicked"; loaded counts the blocks the call loaded.
ThreadIdle == [pc |-> "idle", from |-> 0, to |-> 0, i |-> 0,
               out_buf |-> << >>, written |-> 0, loaded |-> 0]

\* The last call that ended: its range, what it returned, whether it
\* panicked instead, and how many of its blocks it found in the cache.
LastInit == [from |-> 0, to |-> 0, res |-> << >>, panic |-> FALSE, hits |-> 0,
             called |-> FALSE]

RECURSIVE CountLoads(_, _)
CountLoads(l, blocks) ==
    IF blocks = << >> THEN l
    ELSE CountLoads(MapInsert(l, Head(blocks),
                              IF Head(blocks) \in DOMAIN l THEN l[Head(blocks)] + 1 ELSE 1),
                    Tail(blocks))

\* read_bytes(from, to) by a single caller, from the call to the return.
\* A panic under the lock poisons it: cache.write().unwrap() of every later
\* call panics.
read_bytes(from, to) ==
    /\ from <= to
    /\ cache_lock = 0
    /\ LET r == ReadBytes(cache, from, to, file_len)
       IN /\ cache' = r.cache
          /\ loads' = CountLoads(loads, r.loaded)
          /\ cache_lock' = IF r.panic THEN -1 ELSE 0
          /\ last' = [from |-> from, to |-> to, res |-> r.out_buf,
                      panic |-> r.panic,
                      hits |-> (to \div CS) - (from \div CS) + 1 - Len(r.loaded),
                      called |-> TRUE]
    /\ UNCHANGED <<file, file_len, th, skipVars, codecVars, searcherVars>>

FsNext ==
    \E from \in Points(file_len), to \in Points(file_len) \cup Beyond(file_len) :
        read_bytes(from, to)

(***************************************************************************)
(* read_bytes by two threads on one FSFile, in the steps the lock makes    *)
(* visible: the call up to self.cache.write(), getting the lock, each      *)
(* round of the loop, and the return, which drops the guard.               *)
(***************************************************************************)
ConcFileLen == CS + 1
ConcRanges == {<<0, 1>>, <<CS, CS + 1>>, <<0, CS + 1>>}

\* Lines 122-134: the indices and the zeroed out_buf.
read_bytes_call(t, from, to) ==
    /\ th[t].pc = "idle"
    /\ from <= to
    /\ th' = [th EXCEPT ![t] = [pc |-> "waiting", from |-> from, to |-> to,
                                i |-> from \div CS,
                                out_buf |-> [k \in 1..(to - from) |-> 0],
                                written |-> 0, loaded |-> 0]]
    /\ UNCHANGED <<file, file_len, cache, cache_lock, loads, last,
                   skipVars, codecVars, searcherVars>>

\* RwLock::write grants the lock when no one holds it.
CanLock == cache_lock = 0

\* Line 135: self.cache.write().unwrap()
read_bytes_lock(t) ==
    /\ th[t].pc = "waiting"
    /\ CanLock
    /\ cache_lock' = t
    /\ th' = [th EXCEPT ![t].pc = "inside"]
    /\ UNCHANGED <<file, file_len, cache, loads, last, skipVars, codecVars, searcherVars>>

\* Lines 137-147: one round of the loop.
read_bytes_block(t) ==
    /\ th[t].pc = "inside"
    /\ cache_lock = t
    /\ th[t].i <= th[t].to \div CS
    /\ LET r == ReadBlock([cache |-> cache, loaded |-> << >>,
                           out_buf |-> th[t].out_buf, written |-> th[t].written,
                           panic |-> FALSE],
                          th[t].i, th[t].from, th[t].to, file_len)
       IN /\ cache' = r.cache
          /\ loads' = CountLoads(loads, r.loaded)
          /\ cache_lock' = IF r.panic THEN -1 ELSE t
          /\ th' = [th EXCEPT ![t].pc = IF r.panic THEN "panicked" ELSE "inside",
                              ![t].i = @ + 1,
                              ![t].out_buf = r.out_buf,
                              ![t].written = r.written,
                              ![t].loaded = @ + Len(r.loaded)]
          /\ last' = IF r.panic
                     THEN [from |-> th[t].from, to |-> th[t].to, res |-> << >>,
                           panic |-> TRUE, hits |-> 0, called |-> TRUE]
                     ELSE last
    /\ UNCHANGED <<file, file_len, skipVars, codecVars, searcherVars>>

\* Line 149: the result; the guard goes out of scope.
read_bytes_return(t) ==
    /\ th[t].pc = "inside"
    /\ cache_lock = t
    /\ th[t].i > th[t].to \div CS
    /\ cache_lock' = 0
    /\ last' = [from |-> th[t].from, to |-> th[t].to, res |-> th[t].out_buf,
                panic |-> FALSE,
                hits |-> (th[t].to \div CS) - (th[t].from \div CS) + 1 - th[t].loaded,
                called |-> TRUE]
    /\ th' = [th EXCEPT ![t] = ThreadIdle]
    /\ UNCHANGED <<file, file_len, cache, loads, skipVars, codecVars, searcherVars>>

FsConcNext ==
    \E t \in Threads :
        \/ \E r \in ConcRanges : read_bytes_call(t, r[1], r[2])
        \/ read_bytes_lock(t)
        \/ read_bytes_block(t)
        \/ read_bytes_return(t)

(***************************************************************************)
(* SimpleSegmentSerializer (codec.rs).  The POSTINGS file is the sequence  *)
(* of bytes written to it; the term dictionary builder is fst's            *)
(* MapBuilder: the (term, value) pairs it accepted, in order.  A           *)
(* write_u32 to the file either appends its four bytes or fails and        *)
(* appends nothing.                                                        *)
(***************************************************************************)
\* Term order: unsigned lexicographic byte order (a proper prefix is less).
RECURSIVE TermLt(_, _)
TermLt(a, b) ==
    IF b = << >> THEN FALSE
    ELSE IF a = << >> THEN TRUE
    ELSE IF Head(a) # Head(b) THEN Head(a) < Head(b)
    ELSE TermLt(Tail(a), Tail(b))

\* MapBuilder::insert: a key that is not greater than the last key is
\* refused (Err) and the builder is left as it was.
FstInsert(fb, key, value) ==
    IF fb.entries # << >> /\ ~TermLt(fb.entries[Len(fb.entries)][1], key)
    THEN [builder |-> fb, res |-> "OutOfOrder"]
    ELSE [builder |-> [fb EXCEPT !.entries = Append(@, <<key, value>>)],
          res |-> "Ok"]

\* SimpleCodec::serializer
SerializerNew ==
    [written_bytes_postings |-> 0,
     postings_write |-> << >>,
     term_fst_builder |-> [entries |-> << >>],
     cur_term_num_docs |-> 0,
     open |-> TRUE]

\* new_term.  writeFails: the write_u32 of doc_freq fails.  The result of
\* the dictionary insert is dropped.
NewTerm(s, term, doc_freq, writeFails) ==
    LET ins == FstInsert(s.term_fst_builder, term, s.written_bytes_postings)
        s1 == [s EXCEPT !.term_fst_builder = ins.builder,
                        !.cur_term_num_docs = doc_freq]
    IN IF writeFails
       THEN [ser |-> s1, res |-> "WriteError", ins |-> ins.res]
       ELSE [ser |-> [s1 EXCEPT !.postings_write = @ \o U32BE(doc_freq),
                                !.written_bytes_postings = @ + 4],
             res |-> "Ok", ins |-> ins.res]

\* The loop of write_docs over the codec's words; failAt = 1 makes the
\* write of the first remaining word fail.
RECURSIVE WriteWords(_, _, _)
WriteWords(s, words, failAt) ==
    IF words = << >> THEN [ser |-> s, res |-> "Ok"]
    ELSE IF failAt = 1 THEN [ser |-> s, res |-> "WriteError"]
    ELSE WriteWords([s EXCEPT !.postings_write = @ \o U32BE(Head(words)),
                              !.written_bytes_postings = @ + 4],
                    Tail(words), IF failAt = 0 THEN 0 ELSE failAt - 1)

\* A variant that does not count the length word.
WriteDocsUncounted(s, docs_data, failAt) ==
    IF failAt = 1
    THEN [ser |-> s, res |-> "WriteError"]
    ELSE WriteWords([s EXCEPT !.postings_write = @ \o U32BE(Len(docs_data))],
                    docs_data, IF failAt = 0 THEN 0 ELSE failAt - 1)

\* A variant that writes the length word after the codec's words.
WriteDocsLenLast(s, docs_data, failAt) ==
    LET w == WriteWords(s, docs_data, IF failAt = 0 THEN 0 ELSE failAt - 1)
    IN IF failAt = 1 \/ w.res # "Ok"
       THEN [ser |-> s, res |-> "WriteError"]
       ELSE [ser |-> [w.ser EXCEPT !.postings_write = @ \o U32BE(Len(docs_data)),
                                   !.written_bytes_postings = @ + 4],
             res |-> "Ok"]

\* write_docs, docs_data being what encoder.encode(doc_ids) returned.
\* failAt: 0 no write fails, 1 the write of the length fails, 1 + k the
\* write of the k-th word fails.
WriteDocs(s, docs_data, failAt) ==
    IF failAt = 1
    THEN [ser |-> s, res |-> "WriteError"]
    ELSE WriteWords([s EXCEPT !.postings_write = @ \o U32BE(Len(docs_data)),
                              !.written_bytes_postings = @ + 4],
                    docs_data, IF failAt = 0 THEN 0 ELSE failAt - 1)

\* close: the results of term_fst_builder.finish() and store_writer.close()
\* are dropped.
Close(s, finishFails, storeCloseFails) ==
    [ser |-> [s EXCEPT !.open = FALSE], res |-> "Ok"]

\* Inputs of the serializer.
Terms == {<<0>>, <<0, 1>>, <<1>>}
Dfs == {1, 5}
DocIdSlices == {<< >>, <<0>>, <<0, 1>>, <<1, 0>>, <<1, 1>>}
\* What the integer codec may return for a slice (a black box here).
CodecOutputs == {<< >>, <<7>>, <<7, 300>>}

RECURSIVE StrictlyAscending(_)
StrictlyAscending(ids) ==
    \/ Len(ids) <= 1
    \/ ids[1] < ids[2] /\ StrictlyAscending(Tail(ids))

\* History of the last serializer call:
\*   op        "none" | "new_term" | "write_docs" | "close";
\*   res       what it returned;
\*   ioFailed  some underlying write failed during the call;
\*   ordered   of new_term: the term is greater than the term of the
\*             previous new_term call (TRUE for the first);
\*             of write_docs: doc_ids is strictly ascending;
\*   wrote     the number of bytes the call appended to the POSTINGS file;
\*   counted   by how much written_bytes_postings grew;
\*   ins       of new_term: what the dictionary's insert returned;
\*   prevTerm  the term of the latest new_term call, None before the first;
\*   df        of a successful new_term: Some(doc_freq); of a write_docs that
\*             comes right after a successful new_term: that Some(doc_freq);
\*             None otherwise;
\*   data      of write_docs: the codec's output for doc_ids;
\*   startLen, startCount
\*             the length of the POSTINGS file and written_bytes_postings
\*             before the call, or, for a write_docs right after a
\*             successful new_term, before that new_term.
CallInit ==
    [op |-> "none", res |-> "none", ioFailed |-> FALSE, ordered |-> TRUE,
     wrote |-> 0, counted |-> 0, ins |-> "none", prevTerm |-> None,
     df |-> None, data |-> << >>, startLen |-> 0, startCount |-> 0]

new_term(term, doc_freq, writeFails) ==
    /\ ser.open
    /\ Len(ser.postings_write) + 4 <= 4 * MaxPostingWords
    /\ LET r == NewTerm(ser, term, doc_freq, writeFails)
       IN /\ ser' = r.ser
          /\ call' = [op |-> "new_term", res |-> r.res,
                      ioFailed |-> writeFails,
                      ordered |-> call.prevTerm = None \/ TermLt(call.prevTerm[1], term),
                      wrote |-> Len(r.ser.postings_write) - Len(ser.postings_write),
                      counted |-> r.ser.written_bytes_postings
                                  - ser.written_bytes_postings,
                      ins |-> r.ins,
                      prevTerm |-> Some(term),
                      df |-> IF r.res = "Ok" THEN Some(doc_freq) ELSE None,
                      data |-> << >>,
                      startLen |-> Len(ser.postings_write),
                      startCount |-> ser.written_bytes_postings]
    /\ UNCHANGED <<skipVars, searcherVars, fsVars>>

write_docs(doc_ids, docs_data, failAt) ==
    /\ ser.open
    /\ Len(ser.postings_write) + 4 * (1 + Len(docs_data)) <= 4 * MaxPostingWords
    /\ LET r == WriteDocs(ser, docs_data, failAt)
       IN /\ ser' = r.ser
          /\ call' = [op |-> "write_docs", res |-> r.res,
                      ioFailed |-> failAt # 0,
                      ordered |-> StrictlyAscending(doc_ids),
                      wrote |-> Len(r.ser.postings_write) - Len(ser.postings_write),
                      counted |-> r.ser.written_bytes_postings
                                  - ser.written_bytes_postings,
                      ins |-> "none",
                      prevTerm |-> call.prevTerm,
                      df |-> IF call.op = "new_term" THEN call.df ELSE None,
                      data |-> docs_data,
                      startLen |-> IF call.op = "new_term" /\ call.df # None
                                   THEN call.startLen
                                   ELSE Len(ser.postings_write),
                      startCount |-> IF call.op = "new_term" /\ call.df # None
                                     THEN call.startCount
                                     ELSE ser.written_bytes_postings]
    /\ UNCHANGED <<skipVars, searcherVars, fsVars>>

close(finishFails, storeCloseFails) ==
    /\ ser.open
    /\ LET r == Close(ser, finishFails, storeCloseFails)
       IN /\ ser' = r.ser
          /\ call' = [op |-> "close", res |-> r.res,
                      ioFailed |-> finishFails \/ storeCloseFails,
                      ordered |-> TRUE, wrote |-> 0, counted |-> 0,
                      ins |-> "none", prevTerm |-> call.prevTerm,
                      df |-> None, data |-> << >>,
                      startLen |-> Len(ser.postings_write),
                      startCount |-> ser.written_bytes_postings]
    /\ UNCHANGED <<skipVars, searcherVars, fsVars>>

CodecNext ==
    \/ \E t \in Terms, df \in Dfs, wf \in BOOLEAN : new_term(t, df, wf)
    \/ \E ids \in DocIdSlices, w \in CodecOutputs :
          \E f \in 0..(Len(w) + 1) : write_docs(ids, w, f)
    \/ \E ff \in BOOLEAN, sf \in BOOLEAN : close(ff, sf)

(***************************************************************************)
(* The skip list as a state machine: a builder receives strictly ascending *)
(* keys, is written to a sink, the bytes are read back and the reader is   *)
(* driven by next() and seek(t) in any order.                              *)
(***************************************************************************)
DocIds == 0..MaxKey
Targets == 0..(MaxKey + 1)
Periods == 2..MaxPeriod

\* History of the reader calls:
\*   op      the last call ("none" before the first);
\*   res     what it returned;
\*   target  of a seek: its target; of a next: the target of the seek that
\*           immediately preceded it, -1 if the preceding call was no seek;
\*   fwd     of a seek: the target is greater than every key returned by an
\*           earlier call; of a next: that of the preceding seek;
\*   fresh   of a seek: it is the first call on the reader; of a next: that
\*           of the preceding seek;
\*   before  of a seek: the largest key an earlier call returned, -1 if none
\*           (-1 for a next);
\*   maxRet  the largest key any call returned so far, -1 if none;
\*   seeked  some seek has been called;
\*   nexts   while no seek was called: the number of next() calls, counted
\*           up to Len(input) + 1 (0 once a seek was called);
\*   pastEnd the latest seek had a target greater than every key of the
\*           input, and only next() was called since;
\*   maxNext the largest key a next() call yielded so far, -1 if none;
\*   asc     of a next that yielded an entry: its key is greater than every
\*           key an earlier next() yielded (TRUE otherwise).
HistInit ==
    [op |-> "none", res |-> None, target |-> -1, fwd |-> FALSE, fresh |-> FALSE,
     before |-> -1, maxRet |-> -1, seeked |-> FALSE, nexts |-> 0,
     pastEnd |-> FALSE, maxNext |-> -1, asc |-> TRUE]

RetKey(res) == IF res = None THEN -1 ELSE res[1][1]

NoSkipList == [data_layer |-> LayerEmpty, skip_layers |-> << >>]

LastKey == IF input = << >> THEN -1 ELSE input[Len(input)][1]

Insert(doc_id) ==
    /\ phase = "build"
    /\ Len(input) < MaxN
    /\ doc_id > LastKey
    /\ LET v == IF unit THEN 0 ELSE PayloadOf(doc_id)
       IN /\ builder' = SkipListBuilderInsert(builder, unit, doc_id, v)
          /\ input' = Append(input, <<doc_id, v>>)
    /\ UNCHANGED <<phase, unit, output, write_result, skip_list, hist, codecVars, searcherVars, fsVars>>

Write(failed) ==
    /\ phase = "build"
    /\ LET w == SkipListBuilderWrite(builder, failed)
       IN /\ output' = w.out
          /\ write_result' = [res |-> w.res, failed |-> failed]
    /\ phase' = "written"
    /\ UNCHANGED <<unit, builder, input, skip_list, hist, codecVars, searcherVars, fsVars>>

Read ==
    /\ phase = "written"
    /\ write_result.failed = {}
    /\ LET r == SkipListRead(output)
       IN /\ skip_list' = [data_layer |-> r.data_layer, skip_layers |-> r.skip_layers]
          /\ phase' = IF r.ok THEN "reading" ELSE "panicked"
    /\ UNCHANGED <<unit, builder, input, output, write_result, hist, codecVars, searcherVars, fsVars>>

Next ==
    /\ phase = "reading"
    /\ LET r == SkipListNext(skip_list, unit)
       IN /\ skip_list' = r.sl
          /\ phase' = IF r.panic THEN "panicked" ELSE "reading"
          /\ hist' = [op |-> "next", res |-> r.res,
                      target |-> IF hist.op = "seek" THEN hist.target ELSE -1,
                      fwd |-> hist.op = "seek" /\ hist.fwd,
                      fresh |-> hist.op = "seek" /\ hist.fresh,
                      before |-> -1,
                      maxRet |-> Max(hist.maxRet, RetKey(r.res)),
                      seeked |-> hist.seeked,
                      nexts |-> IF hist.seeked THEN 0
                                ELSE Min(hist.nexts + 1, Len(input) + 1),
                      pastEnd |-> hist.pastEnd,
                      maxNext |-> Max(hist.maxNext, RetKey(r.res)),
                      asc |-> r.res = None \/ RetKey(r.res) > hist.maxNext]
    /\ UNCHANGED <<unit, builder, input, output, write_result, codecVars, searcherVars, fsVars>>

Seek(t) ==
    /\ phase = "reading"
    /\ LET r == SkipListSeek(skip_list, unit, t)
       IN /\ skip_list' = r.sl
          /\ phase' = IF r.panic THEN "panicked" ELSE "reading"
          /\ hist' = [op |-> "seek", res |-> r.res,
                      target |-> t,
                      fwd |-> t > hist.maxRet,
                      fresh |-> hist.op = "none",
                      before |-> hist.maxRet,
                      maxRet |-> Max(hist.maxRet, RetKey(r.res)),
                      seeked |-> TRUE,
                      nexts |-> 0,
                      pastEnd |-> t > LastKey,
                      maxNext |-> hist.maxNext,
                      asc |-> TRUE]
    /\ UNCHANGED <<unit, builder, input, output, write_result, codecVars, searcherVars, fsVars>>

SkipNext ==
    \/ \E d \in DocIds : Insert(d)
    \/ \E f \in SUBSET {"header", "data", "skip"} : Write(f)
    \/ Read
    \/ Next
    \/ \E t \in Targets : Seek(t)

(***************************************************************************)
(* The builder alone: DocIds 0, 1, 2, ... are inserted, as a segment       *)
(* numbers them, or any key a caller passes, DocId::MAX included; then the *)
(* builder is written.                                                     *)
(***************************************************************************)
BuildPeriods == 2..MaxBuildPeriod
BuildKeys == (0..(MaxBuildN - 1)) \cup {DocIdMax}

\* SkipListBuilder::insert with the next DocId or with DocId::MAX, the
\* keys staying strictly ascending as u32.
BuildInsert(doc_id) ==
    /\ phase = "build"
    /\ Len(input) < MaxBuildN
    /\ doc_id \in {Len(input), DocIdMax}
    /\ IF input = << >> THEN TRUE ELSE ULt(input[Len(input)][1], doc_id)
    /\ LET v == IF unit THEN 0 ELSE PayloadOf(doc_id)
       IN /\ builder' = SkipListBuilderInsert(builder, unit, doc_id, v)
          /\ input' = Append(input, <<doc_id, v>>)
    /\ UNCHANGED <<phase, unit, output, write_result, skip_list, hist, codecVars, searcherVars, fsVars>>

BuildNext ==
    \/ \E d \in BuildKeys : BuildInsert(d)
    \/ \E f \in SUBSET {"header", "data", "skip"} : Write(f)

(***************************************************************************)
(* The specifications.  Each exercises one component; the variables of the *)
(* other components stay as their constructors leave them.                 *)
(***************************************************************************)
\* A builder of any period, for either payload type; no reader yet.
SkipInit ==
    /\ phase = "build"
    /\ unit \in BOOLEAN
    /\ \E p \in Periods : builder = SkipListBuilderNew(p)
    /\ input = << >>
    /\ output = << >>
    /\ write_result = [res |-> "none", failed |-> {}]
    /\ skip_list = NoSkipList
    /\ hist = HistInit
    /\ ser = SerializerNew
    /\ call = CallInit
    /\ segments = SearcherNew.segments
    /\ segments_idx = SearcherNew.segments_idx
    /\ dir = << >>
    /\ dir_pos = 0
    /\ first_idx = << >>
    /\ add_results = << >>
    /\ search = SearchIdle
    /\ events = << >>
    /\ file = << >>
    /\ file_len = 0
    /\ cache = << >>
    /\ cache_lock = 0
    /\ th = [t \in Threads |-> ThreadIdle]
    /\ loads = << >>
    /\ last = LastInit

SpecSkip == SkipInit /\ [][SkipNext]_vars

\* A builder of any of the periods, for either payload type.
BuildInit ==
    /\ phase = "build"
    /\ unit \in BOOLEAN
    /\ \E p \in BuildPeriods : builder = SkipListBuilderNew(p)
    /\ input = << >>
    /\ output = << >>
    /\ write_result = [res |-> "none", failed |-> {}]
    /\ skip_list = NoSkipList
    /\ hist = HistInit
    /\ ser = SerializerNew
    /\ call = CallInit
    /\ segments = SearcherNew.segments
    /\ segments_idx = SearcherNew.segments_idx
    /\ dir = << >>
    /\ dir_pos = 0
    /\ first_idx = << >>
    /\ add_results = << >>
    /\ search = SearchIdle
    /\ events = << >>
    /\ file = << >>
    /\ file_len = 0
    /\ cache = << >>
    /\ cache_lock = 0
    /\ th = [t \in Threads |-> ThreadIdle]
    /\ loads = << >>
    /\ last = LastInit

SpecSkipBuild == BuildInit /\ [][BuildNext]_vars

\* SimpleCodec::serializer
CodecInit ==
    /\ phase = "build"
    /\ unit = TRUE
    /\ builder = SkipListBuilderNew(2)
    /\ input = << >>
    /\ output = << >>
    /\ write_result = [res |-> "none", failed |-> {}]
    /\ skip_list = NoSkipList
    /\ hist = HistInit
    /\ ser = SerializerNew
    /\ call = CallInit
    /\ segments = SearcherNew.segments
    /\ segments_idx = SearcherNew.segments_idx
    /\ dir = << >>
    /\ dir_pos = 0
    /\ first_idx = << >>
    /\ add_results = << >>
    /\ search = SearchIdle
    /\ events = << >>
    /\ file = << >>
    /\ file_len = 0
    /\ cache = << >>
    /\ cache_lock = 0
    /\ th = [t \in Threads |-> ThreadIdle]
    /\ loads = << >>
    /\ last = LastInit

SpecCodec == CodecInit /\ [][CodecNext]_vars

\* Searcher::new, and a directory listing any segments.
SearcherInit ==
    /\ phase = "build"
    /\ unit = TRUE
    /\ builder = SkipListBuilderNew(2)
    /\ input = << >>
    /\ output = << >>
    /\ write_result = [res |-> "none", failed |-> {}]
    /\ skip_list = NoSkipList
    /\ hist = HistInit
    /\ ser = SerializerNew
    /\ call = CallInit
    /\ segments = SearcherNew.segments
    /\ segments_idx = SearcherNew.segments_idx
    /\ dir \in SeqsUpTo(SegmentIds, MaxSegments)
    /\ dir_pos = 0
    /\ first_idx = << >>
    /\ add_results = << >>
    /\ search = SearchIdle
    /\ events = << >>
    /\ file = << >>
    /\ file_len = 0
    /\ cache = << >>
    /\ cache_lock = 0
    /\ th = [t \in Threads |-> ThreadIdle]
    /\ loads = << >>
    /\ last = LastInit

SpecSearcher == SearcherInit /\ [][SearcherNext]_vars

\* FSFile::new on a file of one of the lengths: nothing cached.
FsInit ==
    /\ phase = "build"
    /\ unit = TRUE
    /\ builder = SkipListBuilderNew(2)
    /\ input = << >>
    /\ output = << >>
    /\ write_result = [res |-> "none", failed |-> {}]
    /\ skip_list = NoSkipList
    /\ hist = HistInit
    /\ ser = SerializerNew
    /\ call = CallInit
    /\ segments = SearcherNew.segments
    /\ segments_idx = SearcherNew.segments_idx
    /\ dir = << >>
    /\ dir_pos = 0
    /\ first_idx = << >>
    /\ add_results = << >>
    /\ search = SearchIdle
    /\ events = << >>
    /\ file_len \in FileLens
    /\ file = FileOfLen(file_len)
    /\ cache = << >>
    /\ cache_lock = 0
    /\ th = [t \in Threads |-> ThreadIdle]
    /\ loads = << >>
    /\ last = LastInit

SpecFS == FsInit /\ [][FsNext]_vars

\* FSFile::new on a file of a block and a byte: nothing cached.
FsConcInit ==
    /\ phase = "build"
    /\ unit = TRUE
    /\ builder = SkipListBuilderNew(2)
    /\ input = << >>
    /\ output = << >>
    /\ write_result = [res |-> "none", failed |-> {}]
    /\ skip_list = NoSkipList
    /\ hist = HistInit
    /\ ser = SerializerNew
    /\ call = CallInit
    /\ segments = SearcherNew.segments
    /\ segments_idx = SearcherNew.segments_idx
    /\ dir = << >>
    /\ dir_pos = 0
    /\ first_idx = << >>
    /\ add_results = << >>
    /\ search = SearchIdle
    /\ events = << >>
    /\ file_len = ConcFileLen
    /\ file = FileOfLen(file_len)
    /\ cache = << >>
    /\ cache_lock = 0
    /\ th = [t \in Threads |-> ThreadIdle]
    /\ loads = << >>
    /\ last = LastInit

SpecFSConc == FsConcInit /\ [][FsConcNext]_vars

(***************************************************************************)
(* Properties of the skip list.                                            *)
(***************************************************************************)
InputKeys == {input[i][1] : i \in 1..Len(input)}

\* The index of the input entry with the smallest key >= t (there is one).
FirstGE(t) ==
    CHOOSE i \in 1..Len(input) :
        /\ input[i][1] >= t
        /\ \A j \in 1..(i - 1) : input[j][1] < t

\* The index of the input entry with the largest key < t (there is one).
LastLT(t) ==
    CHOOSE i \in 1..Len(input) :
        /\ input[i][1] < t
        /\ \A j \in (i + 1)..Len(input) : input[j][1] >= t

\* C1 as stated: in every reader state, if the input has an entry with
\* doc_id >= t, the first next() after seek(t) yields the input entry with
\* the smallest doc_id >= t.
C1_SeekThenNext_AnyState ==
    (hist.op = "next" /\ hist.target # -1 /\ \E k \in InputKeys : k >= hist.target)
        => hist.res = Some(input[FirstGE(hist.target)])

\* C1 amended: the same, for a seek whose target is greater than every key
\* an earlier next() or seek() call on the reader returned.
C1_SeekThenNext_Forward ==
    (/\ hist.op = "next" /\ hist.target # -1 /\ hist.fwd
     /\ \E k \in InputKeys : k >= hist.target)
        => hist.res = Some(input[FirstGE(hist.target)])

\* A forward seek on a reader that had calls before it, over two skip
\* layers, whose next() yields an entry past the third.
C1_Witness ==
    /\ hist.op = "next" /\ hist.target # -1 /\ hist.fwd /\ ~hist.fresh
    /\ Len(skip_list.skip_layers) = 2
    /\ hist.res # None
    /\ hist.res[1][1] >= hist.target
    /\ \E i \in 4..Len(input) : hist.res = Some(input[i])

\* C2: a reader on which only next() is called yields the input pairs in
\* insertion order and then None, for every input (the empty one included),
\* every period and both payload types; reading never panics.
C2_RoundTrip ==
    /\ phase # "panicked"
    /\ (hist.op = "next" /\ ~hist.seeked)
          => hist.res = IF hist.nexts <= Len(input)
                        THEN Some(input[hist.nexts]) ELSE None

\* All of a five-entry input with a u32 payload was yielded, then None.
C2_Witness ==
    /\ hist.op = "next" /\ ~hist.seeked /\ ~unit
    /\ Len(input) = 5 /\ hist.nexts = 6 /\ hist.res = None
    /\ Len(skip_list.skip_layers) = 2

\* C7 as stated: write on a builder without inserts emits an empty
\* cumulative-size vector (the 4-byte length prefix 0) and no layer bytes.
C7_EmptyBuilder_EmptyVector ==
    (phase = "written" /\ input = << >> /\ write_result.failed = {})
        => output = <<0, 0, 0, 0>>

\* C7 amended: write on a builder without inserts emits the one-element
\* cumulative-size vector [0] (length prefix 1, then the data layer's size
\* 0: eight bytes) and no layer bytes.
C7_EmptyBuilder_OneZero ==
    (phase = "written" /\ input = << >> /\ write_result.failed = {})
        => /\ output = <<0, 0, 0, 1, 0, 0, 0, 0>>
           /\ write_result.res = "Ok"

C7_Witness ==
    phase = "written" /\ input = << >> /\ write_result.failed = {} /\ Len(output) = 8

\* C8 as stated: in every reader state seek(target) returns the input entry
\* with the largest key < target, and None only when there is none.
C8_SeekResult_AnyState ==
    hist.op = "seek"
        => hist.res = IF \E k \in InputKeys : k < hist.target
                      THEN Some(input[LastLT(hist.target)]) ELSE None

\* C8 amended: when seek(target) returns an entry, it is the input entry
\* with the largest key < target; it returns None only when no input entry
\* with a key < target is greater than every key an earlier call returned
\* (on a reader without earlier calls: only when the input has no entry with
\* a key < target).
C8_SeekResult_Remaining ==
    hist.op = "seek"
        => /\ hist.res # None => /\ \E k \in InputKeys : k < hist.target
                                 /\ hist.res = Some(input[LastLT(hist.target)])
           /\ hist.res = None =>
                 \A k \in InputKeys : k < hist.target => k <= hist.before

\* A seek after earlier calls that went through two skip layers and
\* returned an entry past the third.
C8_Witness ==
    /\ hist.op = "seek" /\ ~hist.fresh
    /\ Len(skip_list.skip_layers) = 2
    /\ \E i \in 4..Len(input) : hist.res = Some(input[i])

(***************************************************************************)
(* Properties of the serializer.                                           *)
(***************************************************************************)
\* C3: a new_term call whose term is not greater than the term of the
\* previous new_term call never returns Ok, appends nothing to the POSTINGS
\* file and leaves written_bytes_postings as it was.
C3_OutOfOrderTermRejected ==
    (call.op = "new_term" /\ ~call.ordered)
        => call.res # "Ok" /\ call.wrote = 0 /\ call.counted = 0

\* C4: written_bytes_postings is the number of bytes in the POSTINGS file,
\* and the offset the dictionary records for the term of a new_term call
\* that returned Ok is the offset of that term's df field in the file.
C4_OffsetsMatchPostings ==
    /\ ser.written_bytes_postings = Len(ser.postings_write)
    /\ (call.op = "new_term" /\ call.res = "Ok" /\ call.ins = "Ok")
          => LET entries == ser.term_fst_builder.entries
                 e == entries[Len(entries)]
             IN /\ e[1] = call.prevTerm[1]
                /\ e[2] = Len(ser.postings_write) - 4
                /\ ReadU32(ser.postings_write, e[2]).val = ser.cur_term_num_docs

\* The second term of a dictionary, recorded at offset 8 behind the first
\* term's df and an empty posting list.
C4_Witness ==
    /\ call.op = "new_term" /\ call.res = "Ok" /\ call.ins = "Ok"
    /\ Len(ser.term_fst_builder.entries) = 2
    /\ ser.term_fst_builder.entries[2][2] = 8
    /\ ser.written_bytes_postings = 12

\* C5: a serializer call during which an underlying write failed (the df
\* or a posting word, the FST finish, the store close) returns WriteError.
C5_WriteFailureSurfaces ==
    call.ioFailed => call.res = "WriteError"

\* C5, the skip-list part: a write during which the header's or a layer's
\* write failed returns WriteError.
C5_SkipWriteFailureSurfaces ==
    write_result.failed # {} => write_result.res = "WriteError"

(***************************************************************************)
(* Properties of the block-cached file.                                    *)
(***************************************************************************)
\* C6: read_bytes(from, to) with 0 <= from <= to <= len returns the
\* to - from bytes of the file at [from, to), whatever earlier reads left in
\* the cache, and does not panic.
C6_ReadBytesReturnsRange ==
    (last.called /\ last.to <= file_len)
        => /\ ~last.panic
           /\ Len(last.res) = last.to - last.from
           /\ last.res = FileBytes(last.from, last.to, file_len)

\* A read from inside the first block to the end of a file that ends on a
\* block boundary, spanning more than a block, with a block found in the
\* cache.
C6_Witness ==
    /\ last.called /\ ~last.panic /\ last.to <= file_len
    /\ last.from % CS # 0
    /\ last.to = file_len /\ last.to % CS = 0
    /\ last.to - last.from > CS
    /\ last.hits >= 1
    /\ Len(last.res) = last.to - last.from

\* The blocks a thread's call looks up.
BlocksOf(t) == (th[t].from \div CS)..(th[t].to \div CS)

\* C9: a call whose blocks are all cached is not kept out of the cache
\* lookup by another such call that is inside it, and no block is loaded
\* twice.
C9_ConcurrentHits ==
    /\ \A t \in Threads, u \in Threads :
          (/\ t # u
           /\ th[t].pc = "inside" /\ th[t].loaded = 0
           /\ BlocksOf(t) \subseteq DOMAIN cache
           /\ th[u].pc = "waiting"
           /\ BlocksOf(u) \subseteq DOMAIN cache)
              => CanLock
    /\ \A b \in DOMAIN loads : loads[b] <= 1

\* C9, the part about misses: no block is loaded twice.
C9_NoDoubleLoad ==
    \A b \in DOMAIN loads : loads[b] <= 1

(***************************************************************************)
(* Properties of the searcher.                                             *)
(***************************************************************************)
\* C10: the index mapped to a segment id is the number of segments added
\* before the id's first successful add, after any add_segment calls.
C10_DenseIndexStable ==
    /\ DOMAIN segments_idx = DOMAIN first_idx
    /\ \A id \in DOMAIN segments_idx : segments_idx[id] = first_idx[id]

\* What search is to tell the collector for the readers segs: reader by
\* reader in the order of segs, set_segment and then a collect for each
\* DocId the reader yields, in the order it yields them.
RECURSIVE ExpectedEvents(_)
ExpectedEvents(segs) ==
    IF segs = << >> THEN << >>
    ELSE LET reader == Head(segs)
             postings == Postings(reader.segment)
         IN <<[op |-> "set_segment", reader |-> reader, doc_id |-> -1]>>
            \o [k \in 1..Len(postings) |->
                  [op |-> "collect", reader |-> reader, doc_id |-> postings[k]]]
            \o ExpectedEvents(Tail(segs))

\* C11: at every moment of a search the calls made on the collector are the
\* first calls of the fixed order (per reader in insertion order: one
\* set_segment, then each DocId of the reader once, in its order), and when
\* search has returned they are all of them.
C11_SearchDrivesCollectorInOrder ==
    LET expected == ExpectedEvents(segments)
    IN /\ Len(events) <= Len(expected)
       /\ events = SubSeq(expected, 1, Len(events))
       /\ search.seg > Len(segments) => events = expected

\* A finished search over three readers of different segments, one of them
\* yielding nothing and one yielding two DocIds.
C11_Witness ==
    /\ search.seg > Len(segments)
    /\ Len(segments) = 3
    /\ {segments[i].segment : i \in 1..3} = {0, 1, 2}
    /\ Len(events) = 6

(***************************************************************************)
(* Properties of the builder.                                              *)
(***************************************************************************)
\* The bytes of the skip layers and of their header words for n entries and
\* period p, q being the power of p of the layer: 4 + 8 * floor(n / q) for
\* every layer that is not empty.
RECURSIVE SkipLayersSize(_, _, _)
SkipLayersSize(n, p, q) ==
    IF q > n THEN 0 ELSE 4 + 8 * (n \div q) + SkipLayersSize(n, p, q * p)

RECURSIVE Pow(_, _)
Pow(p, i) == IF i = 0 THEN 1 ELSE p * Pow(p, i - 1)

\* 4 + 4 * (L + 1) + n * (4 + w) + the sum of 8 * floor(n / p^i).
ExpectedSize(n, p, w) == 4 + 4 + n * (4 + w) + SkipLayersSize(n, p, p)

\* C12: a written skip list of n entries, period p and payload width w has
\* ExpectedSize(n, p, w) bytes; (1, 10, 4) gives 16, (9, 3, 4) gives 120 and
\* (9, 3, 0) gives 84.
C12_SerializedSize ==
    (phase = "written" /\ write_result.failed = {})
        => LET n == Len(input)
               p == builder.period
               w == IF unit THEN 0 ELSE 4
           IN /\ Len(output) = ExpectedSize(n, p, w)
              /\ \A i \in 1..Len(builder.skip_layers) :
                    /\ builder.skip_layers[i].len = n \div Pow(p, i)
                    /\ builder.skip_layers[i].len > 0
                    /\ Len(builder.skip_layers[i].buffer) = 8 * (n \div Pow(p, i))
              /\ Len(builder.data_layer.buffer) = n * (4 + w)
              /\ (n = 1 /\ p = 10 /\ w = 4) => Len(output) = 16
              /\ (n = 9 /\ p = 3 /\ w = 4) => Len(output) = 120
              /\ (n = 9 /\ p = 3 /\ w = 0) => Len(output) = 84

\* Nine entries with a u32 payload and period 3, written: 120 bytes.
C12_Witness ==
    /\ phase = "written" /\ write_result.failed = {}
    /\ Len(input) = 9 /\ builder.period = 3 /\ ~unit
    /\ Len(builder.skip_layers) = 2
    /\ Len(output) = 120

\* The layer below skip layer i (the data layer below the first), and the
\* width of its records.
LayerBelow(i) == IF i = 1 THEN builder.data_layer ELSE builder.skip_layers[i - 1]
WidthBelow(i) == IF i = 1 THEN (IF unit THEN 4 ELSE 8) ELSE 8

\* C13: the j-th entry (key, offset) of skip layer i is the (j * period)-th
\* entry of the layer below: offset is where that record starts, and the
\* record has the same key.
C13_SkipPointers ==
    \A i \in 1..Len(builder.skip_layers) :
        LET layer == builder.skip_layers[i]
            below == LayerBelow(i)
        IN /\ Len(layer.buffer) = 8 * layer.len
           /\ \A j \in 1..layer.len :
                 LET key == ReadU32(layer.buffer, 8 * (j - 1))
                     offset == ReadU32(layer.buffer, 8 * (j - 1) + 4)
                 IN /\ key.ok /\ offset.ok
                    /\ j * builder.period <= below.len
                    /\ offset.val = (j * builder.period - 1) * WidthBelow(i)
                    /\ ReadU32(below.buffer, offset.val).ok
                    /\ ReadU32(below.buffer, offset.val).val = key.val

\* Three skip layers over eight or more entries with a u32 payload.
C13_Witness ==
    /\ phase = "build" /\ ~unit
    /\ Len(builder.skip_layers) = 3
    /\ builder.skip_layers[3].len = 1
    /\ builder.skip_layers[1].len >= 4

\* C19: no record of the data layer has the key DocId::MAX: an insert of
\* DocId::MAX is rejected and appends nothing.
C19_SentinelRejected ==
    LET width == IF unit THEN 4 ELSE 8
    IN \A j \in 1..builder.data_layer.len :
          ReadU32(builder.data_layer.buffer, width * (j - 1)).val # DocIdMax

(***************************************************************************)
(* Further properties of the reader.                                       *)
(***************************************************************************)
\* C14: in every reader state, an entry the first next() after seek(t)
\* yields has doc_id >= t.
C14_NextAfterSeekNotBelowTarget ==
    (hist.op = "next" /\ hist.target # -1 /\ hist.res # None)
        => RetKey(hist.res) >= hist.target

\* A seek on a reader that had passed its target, over two skip layers,
\* whose next() yields an entry.
C14_Witness ==
    /\ hist.op = "next" /\ hist.target # -1 /\ ~hist.fwd /\ ~hist.fresh
    /\ Len(skip_list.skip_layers) = 2
    /\ hist.res # None
    /\ RetKey(hist.res) > hist.target

\* C15: after seek(t) with t greater than the maximum key of the input, the
\* first next() returns None and so does every later next().
C15_SeekPastEnd ==
    (hist.op = "next" /\ hist.pastEnd) => hist.res = None

\* A later next() (not the first) after a seek past the end of a five-entry
\* input, on a reader that had calls before the seek.
C15_Witness ==
    /\ hist.op = "next" /\ hist.pastEnd /\ hist.target = -1
    /\ Len(input) = 5 /\ hist.maxRet >= 0
    /\ hist.res = None

\* C18: across any next() and seek(t) calls the keys successive next()
\* calls yield are strictly ascending.
C18_NextKeysAscending ==
    hist.op = "next" => hist.asc

(***************************************************************************)
(* Further properties of the serializer.                                   *)
(***************************************************************************)
\* The record a term leaves in the POSTINGS file.
PostingRecord(df, words) == U32BE(df) \o U32BE(Len(words)) \o ConcatU32(words)

\* C16: a successful new_term(term, df) followed by a successful
\* write_docs(doc_ids) appends exactly the big-endian words df, clen and the
\* clen words of the codec's output, 8 + 4 * clen bytes, and
\* written_bytes_postings grows by that amount.
C16_PostingLayout ==
    (call.op = "write_docs" /\ call.res = "Ok" /\ call.df # None) =>
        LET clen == Len(call.data)
            end == Len(ser.postings_write)
        IN /\ end - call.startLen = 8 + 4 * clen
           /\ SubSeq(ser.postings_write, call.startLen + 1, end)
                 = PostingRecord(call.df[1], call.data)
           /\ ser.written_bytes_postings - call.startCount = 8 + 4 * clen

\* A record of doc_freq 5 with at least one word of codec output.
C16_Witness ==
    /\ call.op = "write_docs" /\ call.res = "Ok" /\ call.df # None
    /\ Len(call.data) >= 1
    /\ call.df[1] = 5

\* C20: write_docs with a slice that is not strictly ascending does not
\* return Ok and appends nothing to the POSTINGS file.
C20_UnorderedDocIdsRejected ==
    (call.op = "write_docs" /\ ~call.ordered) =>
        (call.res # "Ok" /\ call.wrote = 0)

(***************************************************************************)
(* Further properties of the searcher.                                     *)
(***************************************************************************)
\* C17: after any add_segment calls, every segment id that was added
\* successfully is mapped to a valid index into segments, and get_doc
\* delegates to a reader of the segment of that id.
C17_GetDocReaderOfSegment ==
    \A id \in DOMAIN first_idx :
        /\ id \in DOMAIN segments_idx
        /\ segments_idx[id] \in 0..(Len(segments) - 1)
        /\ GetDocReader([segments |-> segments, segments_idx |-> segments_idx],
                        id).segment = id

\* Three segments were listed and opened, two of them of the same id, so
\* that id's index is no longer the one of its first add.
C17_Witness ==
    /\ dir_pos = 3 /\ Len(segments) = 3
    /\ Cardinality(DOMAIN first_idx) = 2
    /\ \E id \in DOMAIN first_idx : segments_idx[id] # first_idx[id]

(***************************************************************************)
(* Further properties of the builder.                                      *)
(***************************************************************************)
\* floor(log_p(n)) for n >= 1 and p >= 2.
RECURSIVE FloorLog(_, _)
FloorLog(p, n) == IF n < p THEN 0 ELSE 1 + FloorLog(p, n \div p)

\* C21: for period >= 2, after n >= 1 inserts the builder has exactly
\* floor(log_period(n)) skip layers, none of them empty, skip layer i
\* existing exactly when the layer below it has promoted (has period or
\* more entries); and the cascade of a further insert returns, after at
\* most one round more than there are skip layers.
C21_CascadeLayers ==
    (phase = "build" /\ builder.period >= 2 /\ builder.data_layer.len >= 1) =>
        LET n == builder.data_layer.len
            L == Len(builder.skip_layers)
            top == IF L = 0 THEN builder.data_layer ELSE builder.skip_layers[L]
            rounds == InsertRounds(builder, unit, n, 0, L + 1)
        IN /\ n = Len(input)
           /\ L = FloorLog(builder.period, n)
           /\ \A i \in 1..L : /\ builder.skip_layers[i].len >= 1
                               /\ LayerBelow(i).len >= builder.period
           /\ top.len < builder.period
           /\ rounds \in 0..(L + 1)

\* Eight inserts with period 2: three skip layers, the third created by the
\* eighth insert.
C21_Witness ==
    /\ phase = "build" /\ builder.period = 2
    /\ builder.data_layer.len = 8
    /\ Len(builder.skip_layers) = 3
    /\ builder.skip_layers[3].len = 1

(***************************************************************************)
(* Further properties of the block-cached file.                            *)
(***************************************************************************)
\* Every cached block i holds the file's bytes [i * CS, min((i + 1) * CS, len))
\* and was loaded once.
CacheHoldsFileBlocks ==
    \A i \in DOMAIN cache :
        /\ i * CS <= file_len
        /\ cache[i] = FileBytes(i * CS, Min((i + 1) * CS, file_len), file_len)
        /\ i \in DOMAIN loads /\ loads[i] = 1

\* A read_bytes call adds only blocks of indices from / CS .. to / CS of
\* its range, and leaves every block that was cached as it was, not loading
\* it again.
CacheStep ==
    /\ \A i \in (DOMAIN cache') \ (DOMAIN cache) :
          i \in (last'.from \div CS)..(last'.to \div CS)
    /\ \A i \in DOMAIN cache :
          /\ i \in DOMAIN cache'
          /\ cache'[i] = cache[i]
          /\ loads'[i] = loads[i]

\* C22: in every state reached by read_bytes calls each cached block i holds
\* exactly the file's bytes [i * 4096, min((i + 1) * 4096, len)); a block
\* enters the cache only in a read whose range touches its index, and a
\* cached block is never modified or loaded again.
C22_CacheConsistent == []CacheHoldsFileBlocks /\ [][CacheStep]_vars

\* Two or more blocks are cached, one of them the short last block of the
\* file, and the last read found a block in the cache.
C22_Witness ==
    /\ Cardinality(DOMAIN cache) >= 2
    /\ \E i \in DOMAIN cache : Len(cache[i]) \in 1..(CS - 1)
    /\ last.called /\ ~last.panic /\ last.hits >= 1

\* The positions of the listing whose add_segment succeeded, and how many
\* of them come before position k.
OkPositions == {k \in 1..Len(add_results) : add_results[k] = "Ok"}
OkBefore(k) == Cardinality({j \in OkPositions : j < k})

\* The searcher holds what the successful adds alone would leave: the
\* readers of the segments opened, in the order of the listing, and each id
\* mapped to the index of its latest reader, failed adds taking no index.
FailedAddsLeaveNoTrace ==
    /\ Len(add_results) = dir_pos
    /\ Len(segments) = Cardinality(OkPositions)
    /\ \A k \in OkPositions : segments[OkBefore(k) + 1].segment = dir[k]
    /\ DOMAIN segments_idx = {dir[k] : k \in OkPositions}
    /\ \A k \in OkPositions :
          (\A j \in OkPositions : j > k => dir[j] # dir[k])
              => segments_idx[dir[k]] = OkBefore(k)

\* An add_segment call that fails changes neither segments nor
\* segments_idx, and for_directory moves on to the next segment.
FailedAddStep ==
    (add_results' # add_results /\ add_results'[Len(add_results')] = "Err")
        => /\ segments' = segments
           /\ segments_idx' = segments_idx
           /\ dir_pos' = dir_pos + 1

\* C23: a failed add_segment leaves the searcher unchanged, neither
\* segments nor segments_idx gaining an entry, so that the indices of the
\* segments that were opened stay dense and in the order of insertion; and
\* for_directory goes on with the next segment.
C23_FailedAddLeavesSearcher == []FailedAddsLeaveNoTrace /\ [][FailedAddStep]_vars

\* The second of three listed segments failed to open and the third, of
\* another id than the first, was added after it at index 1.
C23_Witness ==
    /\ add_results = <<"Ok", "Err", "Ok">>
    /\ dir[1] # dir[3] /\ dir[2] \notin {dir[1], dir[3]}
    /\ Len(segments) = 2
    /\ segments_idx[dir[1]] = 0 /\ segments_idx[dir[3]] = 1
    /\ dir[2] \notin DOMAIN segments_idx

=============================================================================
